---- MODULE Spec2Model ----
(***************************************************************************)
(* Weather-enrichment pipeline of the WindBorne constellation tracker:     *)
(* fetchWeatherData (TTL cache + upstream lookup) and                       *)
(* fetchWeatherForPositions (dedup, sequential chunks, per-chunk callback). *)
(*                                                                         *)
(* Coordinates are integers in thousandths of a degree; time is in         *)
(* milliseconds, as Date.now() gives it.                                   *)
(***************************************************************************)
EXTENDS Integers, Sequences, FiniteSets, TLC

VARIABLES
  now,           \* Date.now()
  ticks,         \* number of clock advances so far
  weatherCache,  \* the module-level Map of fetchWeatherData
  calls,         \* the fetchWeatherData invocations: call id -> frame
  requests,      \* PositionKey -> number of upstream requests issued
  rateLimit,     \* the rate-limit state getRateLimitInfo returns
  env,           \* what the callers and the upstream can do in this run of the model
  run,           \* the frame of the fetchWeatherForPositions invocation
  app,           \* the App component: its state and its loadWeather invocations
  proxy          \* the weather proxy function: its invocation and its reply

vars == <<now, ticks, weatherCache, calls, requests, rateLimit, env, run, app, proxy>>

(***************************************************************************)
(* Bounds                                                                  *)
(***************************************************************************)
MaxTicks == 2
BatchTicks == 1
MaxCalls == 2
MaxLen == 3
MaxConc == 2
MaxIter == 4
MaxLoads == 3

(***************************************************************************)
(* Program constants                                                       *)
(***************************************************************************)
CACHE_TTL == 5 * 60 * 1000
FETCH_TIMEOUT == 3000
LEGACY_TIMEOUT == 5000
LEGACY_DELAY == 50
DEFAULT_RETRY_AFTER == 60
APP_MAX_CONCURRENT == 20

(***************************************************************************)
(* JavaScript values of the payload fields                                 *)
(***************************************************************************)
Num(n) == [t |-> "number", v |-> n]
Undefined == [t |-> "undefined", v |-> 0]
JNull == [t |-> "null", v |-> 0]
NaN == [t |-> "NaN", v |-> 0]
\* a string: v = 0 is the empty string, v > 0 a non-empty one
Str(n) == [t |-> "string", v |-> n]

\* ToBoolean of a payload field
Truthy(x) ==
  CASE x.t = "number" -> x.v # 0
    [] x.t = "string" -> x.v # 0
    [] OTHER -> FALSE

\* x || 0
OrZero(x) == IF Truthy(x) THEN x ELSE Num(0)

\* optional values (headers, optional fields)
Absent == [set |-> FALSE, v |-> 0]
Some(x) == [set |-> TRUE, v |-> x]

(***************************************************************************)
(* Positions and the PositionKey                                           *)
(***************************************************************************)
Abs(x) == IF x < 0 THEN -x ELSE x

\* Number.prototype.toFixed(2) of x/1000: the sign is kept ("-0.00"), the
\* magnitude is rounded to hundredths, a tie taking the larger digit string.
ToFixed2(x) == [neg |-> x < 0, hundredths |-> (Abs(x) + 5) \div 10]

\* `${latitude.toFixed(2)},${longitude.toFixed(2)}`
KeyOf(pos) == <<ToFixed2(pos.latitude), ToFixed2(pos.longitude)>>

Pos(lat, lon) == [latitude |-> lat, longitude |-> lon]

Positions == { Pos(10001, 20000), Pos(10004, 20000), Pos(10005, 20000), Pos(-1, 0), Pos(1, 0) }

Keys == { KeyOf(p) : p \in Positions }

(***************************************************************************)
(* Upstream responses                                                      *)
(***************************************************************************)
Payload(temp, wind, dir, hum, pres) ==
  [ temperature_2m |-> temp, wind_speed_10m |-> wind, wind_direction_10m |-> dir,
    relative_humidity_2m |-> hum, surface_pressure |-> pres ]

Payloads ==
  { Payload(Num(20), Num(5), Num(90), Num(40), Num(1000)),
    Payload(Num(25), Num(5), Num(90), Num(40), Num(1000)),
    Payload(Num(0), Undefined, JNull, NaN, Str(1)) }

\* `data.current` of a document without a current record
NoCurrent == Payload(Undefined, Undefined, Undefined, Undefined, Undefined)

\* what response.json() yields: a parse failure, a document without
\* `current`, or a document with a `current` record
Bodies ==
  { [json |-> FALSE, hasCurrent |-> FALSE, current |-> NoCurrent],
    [json |-> TRUE, hasCurrent |-> FALSE, current |-> NoCurrent] }
  \cup { [json |-> TRUE, hasCurrent |-> TRUE, current |-> p] : p \in Payloads }

Hdr(retryAfter, remaining) == [ retryAfter |-> retryAfter, remaining |-> remaining ]

\* status and rate-limit headers (Retry-After seconds, X-RateLimit-Remaining)
Responses ==
  { [status |-> 200, headers |-> Hdr(Absent, Absent)],
    [status |-> 200, headers |-> Hdr(Absent, Some(5))],
    [status |-> 200, headers |-> Hdr(Some(30), Some(0))],
    [status |-> 429, headers |-> Hdr(Some(30), Absent)],
    [status |-> 429, headers |-> Hdr(Absent, Absent)],
    [status |-> 500, headers |-> Hdr(Absent, Absent)] }

\* response.ok
ResponseOk(status) == status >= 200 /\ status <= 299

(***************************************************************************)
(* fetchWeatherData                                                        *)
(***************************************************************************)
Null == [t |-> "null"]
NoEntry == [present |-> FALSE]
\* variant: the entry expires when it is stored (the TTL is not added)
Entry_NoTtl(data, expires) == [present |-> TRUE, data |-> data, expires |-> expires - CACHE_TTL]

\* { data: weather, expires: Date.now() + CACHE_TTL }
Entry(data, expires) == [present |-> TRUE, data |-> data, expires |-> expires]
NoResponse == [status |-> 0, headers |-> Hdr(Absent, Absent)]

\* variant: the coordinates are written in the other order
WeatherOf_Swapped(pos, current, t) ==
  [ latitude |-> pos.longitude,
    longitude |-> pos.latitude,
    temperature |-> OrZero(current.temperature_2m),
    windSpeed |-> OrZero(current.wind_speed_10m),
    windDirection |-> OrZero(current.wind_direction_10m),
    humidity |-> OrZero(current.relative_humidity_2m),
    pressure |-> OrZero(current.surface_pressure),
    timestamp |-> t ]

\* the WeatherData literal of a parsed payload
WeatherOf(pos, current, t) ==
  [ latitude |-> pos.latitude,
    longitude |-> pos.longitude,
    temperature |-> OrZero(current.temperature_2m),
    windSpeed |-> OrZero(current.wind_speed_10m),
    windDirection |-> OrZero(current.wind_direction_10m),
    humidity |-> OrZero(current.relative_humidity_2m),
    pressure |-> OrZero(current.surface_pressure),
    timestamp |-> t ]

\* the frame of one fetchWeatherData invocation: its locals (pos, cached,
\* response, whether response.json() gave a document (parsed), current),
\* where it stands (st), what it returned (result) and when
IdleCall == [ st |-> "idle", pos |-> Pos(0, 0), cached |-> NoEntry, startedAt |-> 0,
              issued |-> FALSE, response |-> NoResponse, parsed |-> FALSE,
              current |-> NoCurrent,
              result |-> Null, settledAt |-> 0 ]

\* variant: an entry is still served at the instant it expires
CacheLive_Inclusive(cached, t) == cached.present /\ cached.expires >= t

\* cached && cached.expires > Date.now()
CacheLive(cached, t) == cached.present /\ cached.expires > t

\* The synchronous part of fetchWeatherData: the cache check and, on a miss,
\* the upstream request with its abort timer.
StartLookup(pos, t, cache) ==
  LET cached == cache[KeyOf(pos)] IN
  IF CacheLive(cached, t)
  THEN [ IdleCall EXCEPT !.st = "settled", !.pos = pos, !.cached = cached, !.startedAt = t,
                         !.result = cached.data, !.settledAt = t ]
  ELSE [ IdleCall EXCEPT !.st = "fetching", !.pos = pos, !.cached = cached, !.startedAt = t,
                         !.issued = TRUE ]

Settle(f, res, t) == [ f EXCEPT !.st = "settled", !.result = res, !.settledAt = t ]

\* variant: the reset time is the moment of recording
RecordResponse_NoDelay(status, headers, t) ==
  IF status = 429 \/ (headers.remaining.set /\ headers.remaining.v = 0)
  THEN [ isRateLimited |-> TRUE, retryAfter |-> headers.retryAfter, resetTime |-> Some(t) ]
  ELSE [ isRateLimited |-> FALSE, retryAfter |-> Absent, resetTime |-> Absent ]

\* variant: a limited state is only ever left by hand, not by a later response
RecordResponse_Sticky(status, headers, t) ==
  IF status = 429 \/ (headers.remaining.set /\ headers.remaining.v = 0)
  THEN LET secs == IF headers.retryAfter.set THEN headers.retryAfter.v ELSE DEFAULT_RETRY_AFTER
       IN [ isRateLimited |-> TRUE, retryAfter |-> Some(secs), resetTime |-> Some(t + secs * 1000) ]
  ELSE rateLimit

\* The rate-limit tracker's recordResponse: a 429 or an exhausted quota sets
\* the limited state with its reset time, anything else clears it.
RecordResponse(status, headers, t) ==
  IF status = 429 \/ (headers.remaining.set /\ headers.remaining.v = 0)
  THEN LET secs == IF headers.retryAfter.set THEN headers.retryAfter.v ELSE DEFAULT_RETRY_AFTER
       IN [ isRateLimited |-> TRUE, retryAfter |-> Some(secs), resetTime |-> Some(t + secs * 1000) ]
  ELSE [ isRateLimited |-> FALSE, retryAfter |-> Absent, resetTime |-> Absent ]

getRateLimitInfo == rateLimit

\* variant: a failed refetch falls back to the entry the call found in the cache
AfterResponse_StaleOnError(f, r, t) ==
  IF r.status = 429 \/ ~ResponseOk(r.status)
  THEN Settle([ f EXCEPT !.response = r ], IF f.cached.present THEN f.cached.data ELSE Null, t)
  ELSE [ f EXCEPT !.st = "body", !.response = r ]

\* the frame after `await fetch(...)` resolved with response r: the status checks
AfterResponse(f, r, t) ==
  IF r.status = 429 THEN Settle([ f EXCEPT !.response = r ], Null, t)
  ELSE IF ~ResponseOk(r.status) THEN Settle([ f EXCEPT !.response = r ], Null, t)
  ELSE [ f EXCEPT !.st = "body", !.response = r ]

\* `await fetch(...)` resolves with a response: clearTimeout, then the status checks
Respond(c) ==
  /\ calls[c].st = "fetching"
  /\ now < calls[c].startedAt + FETCH_TIMEOUT
  /\ \E r \in env.responses :
       /\ rateLimit' = RecordResponse(r.status, r.headers, now)
       /\ calls' = [ calls EXCEPT ![c] = AfterResponse(calls[c], r, now) ]
  /\ UNCHANGED <<now, ticks, weatherCache, requests, env, run, app, proxy>>

\* `await fetch(...)` rejects: a network failure
NetworkError(c) ==
  /\ calls[c].st = "fetching"
  /\ now < calls[c].startedAt + FETCH_TIMEOUT
  /\ calls' = [ calls EXCEPT ![c] = Settle(calls[c], Null, now) ]
  /\ UNCHANGED <<now, ticks, weatherCache, requests, rateLimit, env, run, app, proxy>>

\* the abort timer fires while fetch is pending: AbortError, caught
Timeout(c) ==
  /\ calls[c].st = "fetching"
  /\ now >= calls[c].startedAt + FETCH_TIMEOUT
  /\ calls' = [ calls EXCEPT ![c] = Settle(calls[c], Null, now) ]
  /\ UNCHANGED <<now, ticks, weatherCache, requests, rateLimit, env, run, app, proxy>>

\* variant: a body without usable data is remembered as a negative entry
Body_NegativeCache(c) ==
  /\ calls[c].st = "body"
  /\ \E body \in env.bodies :
       IF body.json /\ body.hasCurrent
       THEN LET weather == WeatherOf(calls[c].pos, body.current, now) IN
            /\ weatherCache' = [ weatherCache EXCEPT ![KeyOf(calls[c].pos)] =
                                   Entry(weather, now + CACHE_TTL) ]
            /\ calls' = [ calls EXCEPT ![c] =
                           Settle([ calls[c] EXCEPT !.parsed = TRUE, !.current = body.current ], weather, now) ]
       ELSE /\ calls' = [ calls EXCEPT ![c] =
                           Settle([ calls[c] EXCEPT !.parsed = body.json ], Null, now) ]
            /\ weatherCache' = [ weatherCache EXCEPT ![KeyOf(calls[c].pos)] =
                                   Entry(Null, now + CACHE_TTL) ]
  /\ UNCHANGED <<now, ticks, requests, rateLimit, env, run, app, proxy>>

\* variant: an entry is stored only when the key has none
Body_KeepsFirst(c) ==
  /\ calls[c].st = "body"
  /\ \E body \in env.bodies :
       IF body.json /\ body.hasCurrent
       THEN LET weather == WeatherOf(calls[c].pos, body.current, now) IN
            /\ weatherCache' = [ weatherCache EXCEPT ![KeyOf(calls[c].pos)] =
                                   IF @.present THEN @ ELSE Entry(weather, now + CACHE_TTL) ]
            /\ calls' = [ calls EXCEPT ![c] =
                           Settle([ calls[c] EXCEPT !.parsed = TRUE, !.current = body.current ], weather, now) ]
       ELSE /\ calls' = [ calls EXCEPT ![c] =
                           Settle([ calls[c] EXCEPT !.parsed = body.json ], Null, now) ]
            /\ UNCHANGED weatherCache
  /\ UNCHANGED <<now, ticks, requests, rateLimit, env, run, app, proxy>>

\* `await response.json()` settles: parse, build the observation, cache it
Body(c) ==
  /\ calls[c].st = "body"
  /\ \E body \in env.bodies :
       IF body.json /\ body.hasCurrent
       THEN LET weather == WeatherOf(calls[c].pos, body.current, now) IN
            /\ weatherCache' = [ weatherCache EXCEPT ![KeyOf(calls[c].pos)] =
                                   Entry(weather, now + CACHE_TTL) ]
            /\ calls' = [ calls EXCEPT ![c] =
                           Settle([ calls[c] EXCEPT !.parsed = TRUE, !.current = body.current ], weather, now) ]
       ELSE /\ calls' = [ calls EXCEPT ![c] =
                           Settle([ calls[c] EXCEPT !.parsed = body.json ], Null, now) ]
            /\ UNCHANGED weatherCache
  /\ UNCHANGED <<now, ticks, requests, rateLimit, env, run, app, proxy>>

\* the clock advances
Tick ==
  /\ ticks < env.maxTicks
  /\ \E d \in env.steps : now' = now + d
  /\ ticks' = ticks + 1
  /\ UNCHANGED <<weatherCache, calls, requests, rateLimit, env, run, app, proxy>>

(***************************************************************************)
(* Direct callers of fetchWeatherData                                      *)
(***************************************************************************)
NoRun == [ pc |-> "none" ]
EmptyMap == [ x \in {} |-> Null ]

\* the weather proxy before its first invocation
IdleProxy == [ pc |-> "idle" ]

\* the App before its data has arrived: useState's initial values
IdleApp == [ history |-> <<>>, selectedHour |-> 0, weatherData |-> EmptyMap,
             loadingWeather |-> FALSE, rateLimitInfo |-> [ isRateLimited |-> FALSE ],
             loads |-> <<>> ]

\* the cache as an earlier lookup of position pos, answered at time t, left it
Warm(pos, t) ==
  [ k \in Keys |-> IF k = KeyOf(pos)
                   THEN Entry(WeatherOf(pos, Payload(Num(20), Num(5), Num(90), Num(40), Num(1000)), t),
                              t + CACHE_TTL)
                   ELSE NoEntry ]

InitShared ==
  /\ now = 0
  /\ ticks = 0
  /\ requests = [ k \in Keys |-> 0 ]
  /\ rateLimit = [ isRateLimited |-> FALSE, retryAfter |-> Absent, resetTime |-> Absent ]
  /\ app = IdleApp
  /\ proxy = IdleProxy

PlainResponses == { r \in Responses : r.headers = Hdr(Absent, Absent) }

InitCalls ==
  /\ InitShared
  /\ weatherCache = [ k \in Keys |-> NoEntry ]
  /\ env = [ positions |-> { Pos(10001, 20000), Pos(10004, 20000) },
             responses |-> PlainResponses,
             bodies |-> { b \in Bodies : b.json /\ b.current.temperature_2m \in {Undefined, Num(20)} },
             steps |-> {1, CACHE_TTL - 1},
             maxTicks |-> MaxTicks ]
  /\ calls = [ c \in 1..MaxCalls |-> IdleCall ]
  /\ run = NoRun

\* a caller invokes fetchWeatherData(latitude, longitude)
Invoke(c) ==
  /\ calls[c].st = "idle"
  /\ \A d \in DOMAIN calls : d < c => calls[d].st # "idle"
  /\ \E pos \in env.positions :
       LET f == StartLookup(pos, now, weatherCache) IN
       /\ calls' = [ calls EXCEPT ![c] = f ]
       /\ requests' = [ requests EXCEPT ![KeyOf(pos)] = @ + (IF f.issued THEN 1 ELSE 0) ]
  /\ UNCHANGED <<now, ticks, weatherCache, rateLimit, env, run, app, proxy>>

NextCalls ==
  \/ \E c \in DOMAIN calls : Invoke(c)
  \/ \E c \in DOMAIN calls : Respond(c)
  \/ \E c \in DOMAIN calls : NetworkError(c)
  \/ \E c \in DOMAIN calls : Timeout(c)
  \/ \E c \in DOMAIN calls : Body(c)
  \/ Tick

SpecCalls == InitCalls /\ [][NextCalls]_vars

(***************************************************************************)
(* The rate-limit tracker under every response the upstream can give       *)
(***************************************************************************)
InitTracker ==
  /\ InitShared
  /\ weatherCache = [ k \in Keys |-> NoEntry ]
  /\ env = [ positions |-> { Pos(10001, 20000) },
             responses |-> Responses,
             bodies |-> { b \in Bodies : b.json /\ b.current.temperature_2m \in {Num(20), Undefined} },
             steps |-> {1, FETCH_TIMEOUT},
             maxTicks |-> MaxTicks ]
  /\ calls = [ c \in 1..MaxCalls |-> IdleCall ]
  /\ run = NoRun

SpecTracker == InitTracker /\ [][NextCalls]_vars

(***************************************************************************)
(* Two keys under every body the upstream can send, and an upstream that   *)
(* may stay silent: the clock advances by the timeout                      *)
(***************************************************************************)
InitParse ==
  /\ InitShared
  /\ weatherCache \in { [ k \in Keys |-> NoEntry ], Warm(Pos(10005, 20000), 0) }
  /\ env = [ positions |-> { Pos(10001, 20000), Pos(10005, 20000) },
             responses |-> PlainResponses,
             bodies |-> Bodies,
             steps |-> {FETCH_TIMEOUT},
             maxTicks |-> MaxTicks ]
  /\ calls = [ c \in 1..MaxCalls |-> IdleCall ]
  /\ run = NoRun

SpecParse == InitParse /\ [][NextCalls]_vars

\* what the code's own scheduling guarantees: time passes and a due abort
\* timer fires; whether and when the upstream answers or finishes a body is
\* the upstream's choice
FairParse ==
  /\ SpecParse
  /\ WF_vars(Tick)
  /\ \A c \in 1..MaxCalls : WF_vars(Timeout(c))

(***************************************************************************)
(* fetchWeatherForPositions                                                *)
(***************************************************************************)
Min(a, b) == IF a < b THEN a ELSE b
Max(a, b) == IF a > b THEN a ELSE b

\* Array.prototype.slice(start, end): negative indices count from the end
Slice(s, start, end) ==
  LET n == Len(s)
      from == IF start < 0 THEN Max(n + start, 0) ELSE Min(start, n)
      to == IF end < 0 THEN Max(n + end, 0) ELSE Min(end, n)
  IN [ k \in 1..Max(to - from, 0) |-> s[from + k] ]

\* Map.prototype.set
MapSet(m, k, v) == [ x \in DOMAIN m \cup {k} |-> IF x = k THEN v ELSE m[x] ]

\* the dedup loop: the first position of each key, in order of first appearance
RECURSIVE UniquePositions(_, _)
UniquePositions(positions, seen) ==
  IF positions = <<>> THEN <<>>
  ELSE LET pos == Head(positions)
           key == KeyOf(pos)
       IN IF key \in seen
          THEN UniquePositions(Tail(positions), seen)
          ELSE <<pos>> \o UniquePositions(Tail(positions), seen \cup {key})

\* variant: the first failed lookup of a chunk ends the chunk's merge
RECURSIVE MergeResults_StopAtFailure(_, _, _)
MergeResults_StopAtFailure(m, frames, k) ==
  IF k > Len(frames) \/ frames[k].result = Null THEN m
  ELSE MergeResults_StopAtFailure(MapSet(m, KeyOf(frames[k].pos), frames[k].result), frames, k + 1)

\* results.forEach: every fulfilled, non-null result is set under its key
RECURSIVE MergeResults(_, _, _)
MergeResults(m, frames, k) ==
  IF k > Len(frames) THEN m
  ELSE MergeResults(
         IF frames[k].result # Null THEN MapSet(m, KeyOf(frames[k].pos), frames[k].result) ELSE m,
         frames, k + 1)

\* variant: only the first input position is mapped back
FinalMap_FirstOnly(positions, weatherMap) ==
  [ k \in { KeyOf(positions[n]) : n \in DOMAIN positions \cap {1} } \cap DOMAIN weatherMap |-> weatherMap[k] ]

\* the final positions.forEach: the entries of weatherMap under the keys of
\* the original positions
FinalMap(positions, weatherMap) ==
  [ k \in { KeyOf(positions[n]) : n \in DOMAIN positions } \cap DOMAIN weatherMap |-> weatherMap[k] ]

\* the loop counter as the model keeps it: below zero every value gives the
\* same (empty) slice, so those values are folded into one
Clamp(i) == Max(i, -1)

\* variant: a chunk without any result is not reported
Log_SkipEmpty(cbs, m) == IF m = EmptyMap \/ Len(cbs) >= MaxIter THEN cbs ELSE Append(cbs, m)

\* variant: the latest payload is put in front of the earlier ones
Log_Prepend(cbs, m) == IF Len(cbs) < MaxIter THEN <<m>> \o cbs ELSE cbs

\* onBatchComplete(batchMap); the callback log keeps the first MaxIter payloads of a run
Log(cbs, m) == IF Len(cbs) < MaxIter THEN Append(cbs, m) ELSE cbs

IdleRun ==
  [ pc |-> "idle", positions |-> <<>>, maxConcurrent |-> 1, hasCallback |-> FALSE,
    deduplicated |-> <<>>, i |-> 0, weatherMap |-> EmptyMap, callbacks |-> <<>>,
    finalMap |-> EmptyMap, failed |-> {}, odd |-> FALSE, wakeAt |-> 0 ]

\* the batch.map of one chunk: every fetchWeatherData of the chunk runs up to
\* its first await, in order, within the same turn of the event loop
LaunchChunk(batch) == [ k \in 1..Len(batch) |-> StartLookup(batch[k], now, weatherCache) ]

Issued(frames, key) == Cardinality({ k \in DOMAIN frames : frames[k].issued /\ KeyOf(frames[k].pos) = key })

\* the head of the for loop at counter i: either the next chunk is launched
\* and the run awaits Promise.allSettled, or the loop ends and the run returns
LoopFrom(r, i, issuedSoFar) ==
  IF i < Len(r.deduplicated)
  THEN LET batch == Slice(r.deduplicated, i, i + r.maxConcurrent)
           frames == LaunchChunk(batch)
       IN /\ run' = [ r EXCEPT !.pc = "await", !.i = i ]
          /\ calls' = frames
          /\ requests' = [ key \in Keys |-> issuedSoFar[key] + Issued(frames, key) ]
  ELSE /\ run' = [ r EXCEPT !.pc = "done", !.i = i,
                            !.finalMap = FinalMap(r.positions, r.weatherMap) ]
       /\ calls' = <<>>
       /\ requests' = issuedSoFar

Lists(S, n) == UNION { [1..k -> S] : k \in 0..n }

\* a caller invokes fetchWeatherForPositions(positions, maxConcurrent, onBatchComplete)
CallFetchWeatherForPositions ==
  /\ run.pc = "idle"
  /\ \E positions \in Lists(env.positions, MaxLen), m \in env.concurrency, cb \in BOOLEAN :
       LET r == [ IdleRun EXCEPT !.positions = positions, !.maxConcurrent = m,
                                 !.hasCallback = cb,
                                 !.deduplicated = UniquePositions(positions, {}) ]
       IN LoopFrom(r, 0, requests)
  /\ UNCHANGED <<now, ticks, weatherCache, rateLimit, env, app, proxy>>

\* the keys of the chunk whose lookup returned null
FailedKeys(frames) == { KeyOf(frames[k].pos) : k \in { j \in DOMAIN frames : frames[j].result = Null } }

\* variant: the callback is handed the accumulated map
AfterJoin_Cumulative(r, frames) ==
  [ r EXCEPT !.weatherMap = MergeResults(r.weatherMap, frames, 1),
             !.callbacks = IF r.hasCallback
                           THEN Log(r.callbacks, MergeResults(r.weatherMap, frames, 1))
                           ELSE r.callbacks,
             !.failed = r.failed \cup FailedKeys(frames),
             !.odd = ~r.odd ]

\* the frame after the results.forEach and the callback of one chunk: the run
\* also records the keys that failed and the parity of the iteration count
AfterJoin(r, frames) ==
  LET batchMap == MergeResults(EmptyMap, frames, 1) IN
  [ r EXCEPT !.weatherMap = MergeResults(r.weatherMap, frames, 1),
             !.callbacks = IF r.hasCallback THEN Log(r.callbacks, batchMap) ELSE r.callbacks,
             !.failed = r.failed \cup FailedKeys(frames),
             !.odd = ~r.odd ]

\* Promise.allSettled of the chunk resolves: merge, callback, next iteration
JoinChunk ==
  /\ run.pc = "await"
  /\ \A c \in DOMAIN calls : calls[c].st = "settled"
  /\ LET r == AfterJoin(run, calls)
     IN LoopFrom(r, Clamp(run.i + run.maxConcurrent), requests)
  /\ UNCHANGED <<now, ticks, weatherCache, rateLimit, env, app, proxy>>

InitBatch ==
  /\ InitShared
  /\ weatherCache \in { [ k \in Keys |-> NoEntry ], Warm(Pos(10004, 20000), 0) }
  /\ env = [ positions |-> Positions \ { Pos(1, 0) },
             concurrency |-> (-1)..MaxConc,
             responses |-> { r \in PlainResponses : r.status # 429 },
             bodies |-> { b \in Bodies : b.json /\ b.current.temperature_2m \in {Undefined, Num(20)} },
             steps |-> {CACHE_TTL},
             maxTicks |-> BatchTicks ]
  /\ calls = <<>>
  /\ run = IdleRun

Next ==
  \/ CallFetchWeatherForPositions
  \/ JoinChunk
  \/ \E c \in DOMAIN calls : Respond(c)
  \/ \E c \in DOMAIN calls : NetworkError(c)
  \/ \E c \in DOMAIN calls : Timeout(c)
  \/ \E c \in DOMAIN calls : Body(c)
  \/ Tick

Init == InitBatch

Spec == Init /\ [][Next]_vars

LookupStep == \E c \in DOMAIN calls : Respond(c) \/ NetworkError(c) \/ Timeout(c) \/ Body(c)

\* every lookup settles, every continuation of the run is scheduled
FairSpec ==
  /\ Spec
  /\ WF_vars(CallFetchWeatherForPositions)
  /\ WF_vars(LookupStep)
  /\ WF_vars(JoinChunk)

(***************************************************************************)
(* services/weatherApi.ts: the fetcher without cache and without dedup     *)
(***************************************************************************)
LegacyWeatherOf(pos, current) ==
  [ latitude |-> pos.latitude,
    longitude |-> pos.longitude,
    temperature |-> OrZero(current.temperature_2m),
    windSpeed |-> OrZero(current.wind_speed_10m),
    windDirection |-> OrZero(current.wind_direction_10m),
    humidity |-> OrZero(current.relative_humidity_2m),
    pressure |-> OrZero(current.surface_pressure) ]

\* the synchronous part of fetchWeatherData: the request and its abort timer
LegacyStartLookup(pos, t) ==
  [ IdleCall EXCEPT !.st = "fetching", !.pos = pos, !.startedAt = t, !.issued = TRUE ]

LegacyRespond(c) ==
  /\ calls[c].st = "fetching"
  /\ now < calls[c].startedAt + LEGACY_TIMEOUT
  /\ \E r \in env.responses :
       calls' = [ calls EXCEPT ![c] =
                    IF ~ResponseOk(r.status) THEN Settle([ calls[c] EXCEPT !.response = r ], Null, now)
                    ELSE [ calls[c] EXCEPT !.st = "body", !.response = r ] ]
  /\ UNCHANGED <<now, ticks, weatherCache, requests, rateLimit, env, run, app, proxy>>

LegacyNetworkError(c) ==
  /\ calls[c].st = "fetching"
  /\ now < calls[c].startedAt + LEGACY_TIMEOUT
  /\ calls' = [ calls EXCEPT ![c] = Settle(calls[c], Null, now) ]
  /\ UNCHANGED <<now, ticks, weatherCache, requests, rateLimit, env, run, app, proxy>>

LegacyTimeout(c) ==
  /\ calls[c].st = "fetching"
  /\ now >= calls[c].startedAt + LEGACY_TIMEOUT
  /\ calls' = [ calls EXCEPT ![c] = Settle(calls[c], Null, now) ]
  /\ UNCHANGED <<now, ticks, weatherCache, requests, rateLimit, env, run, app, proxy>>

LegacyBody(c) ==
  /\ calls[c].st = "body"
  /\ \E body \in env.bodies :
       calls' = [ calls EXCEPT ![c] =
                    IF body.json /\ body.hasCurrent
                    THEN Settle([ calls[c] EXCEPT !.parsed = TRUE, !.current = body.current ],
                                LegacyWeatherOf(calls[c].pos, body.current), now)
                    ELSE Settle([ calls[c] EXCEPT !.parsed = body.json ], Null, now) ]
  /\ UNCHANGED <<now, ticks, weatherCache, requests, rateLimit, env, run, app, proxy>>

\* the head of the for loop at counter i, over the positions as given
LegacyLoopFrom(r, i) ==
  IF i < Len(r.positions)
  THEN LET batch == Slice(r.positions, i, i + r.maxConcurrent)
           frames == [ k \in 1..Len(batch) |-> LegacyStartLookup(batch[k], now) ]
       IN /\ run' = [ r EXCEPT !.pc = "await", !.i = i ]
          /\ calls' = frames
          /\ requests' = [ key \in Keys |-> requests[key] + Issued(frames, key) ]
  ELSE /\ run' = [ r EXCEPT !.pc = "done", !.i = i, !.finalMap = r.weatherMap ]
       /\ calls' = <<>>
       /\ UNCHANGED requests

LegacyCall ==
  /\ run.pc = "idle"
  /\ \E positions \in Lists(env.positions, MaxLen), m \in env.concurrency, cb \in BOOLEAN :
       LegacyLoopFrom([ IdleRun EXCEPT !.positions = positions, !.maxConcurrent = m,
                                       !.hasCallback = cb ], 0)
  /\ UNCHANGED <<now, ticks, weatherCache, rateLimit, env, app, proxy>>

\* Promise.allSettled resolves: merge, callback, then the 50 ms pause when
\* positions remain, else the loop's increment and test
LegacyJoin ==
  /\ run.pc = "await"
  /\ \A c \in DOMAIN calls : calls[c].st = "settled"
  /\ LET r == AfterJoin(run, calls) IN
     IF run.i + run.maxConcurrent < Len(run.positions)
     THEN /\ run' = [ r EXCEPT !.pc = "delay", !.wakeAt = now + LEGACY_DELAY ]
          /\ calls' = <<>>
          /\ UNCHANGED requests
     ELSE LegacyLoopFrom(r, Clamp(run.i + run.maxConcurrent))
  /\ UNCHANGED <<now, ticks, weatherCache, rateLimit, env, app, proxy>>

\* the pause ends: the loop's increment and test
LegacyWake ==
  /\ run.pc = "delay"
  /\ now >= run.wakeAt
  /\ LegacyLoopFrom(run, Clamp(run.i + run.maxConcurrent))
  /\ UNCHANGED <<now, ticks, weatherCache, rateLimit, env, app, proxy>>

InitLegacy ==
  /\ InitShared
  /\ weatherCache = [ k \in Keys |-> NoEntry ]
  /\ env = [ positions |-> { Pos(10001, 20000), Pos(10004, 20000), Pos(10005, 20000) },
             concurrency |-> 1..MaxConc,
             responses |-> { r \in PlainResponses : r.status # 429 },
             bodies |-> { b \in Bodies : b.json /\ b.current.temperature_2m # Num(0) },
             steps |-> {LEGACY_DELAY, LEGACY_TIMEOUT},
             maxTicks |-> MaxTicks ]
  /\ calls = <<>>
  /\ run = IdleRun

NextLegacy ==
  \/ LegacyCall
  \/ LegacyJoin
  \/ LegacyWake
  \/ \E c \in DOMAIN calls : LegacyRespond(c)
  \/ \E c \in DOMAIN calls : LegacyNetworkError(c)
  \/ \E c \in DOMAIN calls : LegacyTimeout(c)
  \/ \E c \in DOMAIN calls : LegacyBody(c)
  \/ Tick

SpecLegacy == InitLegacy /\ [][NextLegacy]_vars

(***************************************************************************)
(* App.tsx: the weather effect of the App component.  Each loadWeather     *)
(* invocation drives one fetchWeatherForPositions run with chunks of 20;   *)
(* the run is represented by its loop counter and by the payloads its      *)
(* joins hand to the callback.                                             *)
(***************************************************************************)
\* the constellation history: one record of positions per hour
History ==
  << [ hour |-> 0, positions |-> << Pos(10001, 20000), Pos(-1, 0) >> ],
     [ hour |-> 1, positions |-> << Pos(10005, 20000), Pos(-1, 0) >> ],
     [ hour |-> 2, positions |-> << >> ] >>

NoData == [ hour |-> -1, positions |-> << >> ]

\* history.find((d) => d.hour === selectedHour) || history[0] || null
CurrentData(a) ==
  IF \E n \in DOMAIN a.history : a.history[n].hour = a.selectedHour
  THEN a.history[CHOOSE n \in DOMAIN a.history : a.history[n].hour = a.selectedHour]
  ELSE IF a.history # << >> THEN a.history[1] ELSE NoData

\* loadWeather up to its await: the state is reset and a run is started with
\* the positions of the data shown
LoadWeather(a, data) ==
  [ a EXCEPT !.loadingWeather = TRUE,
             !.weatherData = EmptyMap,
             !.loads = Append(@, [ hour |-> data.hour,
                                   deduplicated |-> UniquePositions(data.positions, {}),
                                   i |-> 0, pc |-> "await" ]) ]

\* the effect on [currentData]: it runs when the data shown has changed, and
\* returns at once when there are no positions
WeatherEffect(before, a) ==
  IF CurrentData(a) = CurrentData(before) \/ CurrentData(a).positions = << >>
  THEN a
  ELSE LoadWeather(a, CurrentData(a))

\* loadData: the history arrives
HistoryArrives ==
  /\ app.history = << >>
  /\ app' = WeatherEffect(app, [ app EXCEPT !.history = History ])
  /\ UNCHANGED <<now, ticks, weatherCache, calls, requests, rateLimit, env, run, proxy>>

\* the user moves the hour slider
SelectHour(h) ==
  /\ app.history # << >>
  /\ h # app.selectedHour
  /\ \E n \in DOMAIN app.history : app.history[n].hour = h
  /\ Len(app.loads) < MaxLoads
  /\ app' = WeatherEffect(app, [ app EXCEPT !.selectedHour = h ])
  /\ UNCHANGED <<now, ticks, weatherCache, calls, requests, rateLimit, env, run, proxy>>

\* the payload of a chunk of which the lookups at the indices ok succeeded;
\* each entry carries the number of the load that obtained it
BatchData(chunk, ok, l) ==
  [ k \in { KeyOf(chunk[n]) : n \in ok } |->
      [ weather |-> WeatherOf(chunk[CHOOSE n \in ok : KeyOf(chunk[n]) = k],
                              Payload(Num(20), Num(5), Num(90), Num(40), Num(1000)), now),
        by |-> l ] ]

\* setWeatherData((prev) => { updated = new Map(prev); batchData.forEach(set) })
MergeBatch(prev, batchData) ==
  [ k \in DOMAIN prev \cup DOMAIN batchData |->
      IF k \in DOMAIN batchData THEN batchData[k] ELSE prev[k] ]

\* a chunk of load l is joined: the callback merges its payload into
\* weatherData; after the last chunk the run returns and the finally block runs
ChunkCallback(l) ==
  /\ app.loads[l].pc = "await"
  /\ LET load == app.loads[l]
         chunk == Slice(load.deduplicated, load.i, load.i + APP_MAX_CONCURRENT)
         i == load.i + APP_MAX_CONCURRENT
     IN \E ok \in SUBSET DOMAIN chunk :
          LET merged == [ app EXCEPT !.weatherData = MergeBatch(@, BatchData(chunk, ok, l)) ]
          IN app' = IF i < Len(load.deduplicated)
                    THEN [ merged EXCEPT !.loads[l].i = i ]
                    ELSE [ merged EXCEPT !.loads[l].i = i, !.loads[l].pc = "done",
                                         !.loadingWeather = FALSE,
                                         !.rateLimitInfo = getRateLimitInfo ]
  /\ UNCHANGED <<now, ticks, weatherCache, calls, requests, rateLimit, env, run, proxy>>

InitApp ==
  /\ InitShared
  /\ weatherCache = [ k \in Keys |-> NoEntry ]
  /\ env = [ hours |-> { History[n].hour : n \in DOMAIN History } ]
  /\ calls = << >>
  /\ run = NoRun

NextApp ==
  \/ HistoryArrives
  \/ \E h \in env.hours : SelectHour(h)
  \/ \E l \in DOMAIN app.loads : ChunkCallback(l)

SpecApp == InitApp /\ [][NextApp]_vars

(***************************************************************************)
(* netlify/functions weather proxy: exports.handler                        *)
(***************************************************************************)
\* the invocations: method and query parameters ("" is a missing or empty one)
ProxyEvents ==
  [ httpMethod : {"GET", "OPTIONS", "POST"}, latitude : {"", "10.00"}, longitude : {"", "20.00"} ]

\* upstream bodies: the text is a JSON document (compact as JSON.stringify
\* writes it, or not) or is not JSON at all
UpstreamBodies ==
  { [ json |-> TRUE, value |-> "forecast", compact |-> TRUE ],
    [ json |-> TRUE, value |-> "reason", compact |-> FALSE ],
    [ json |-> FALSE, value |-> "Too Many Requests", compact |-> FALSE ] }

\* upstream responses: status, rate-limit headers ("" is a header that is
\* not present, for which headers.get returns null) and body
UpstreamResponses ==
  [ status : {200, 429, 500}, retryAfter : {"", "30", "60"}, remaining : {"", "0"},
    reset : {"", "1700000000"}, body : UpstreamBodies ]

\* headers['X'] = response.headers.get('X') when that is truthy
Forwarded(value) == IF value # "" THEN value ELSE ""

\* JSON.stringify(x)
Stringify(value) == [ json |-> TRUE, value |-> value, compact |-> TRUE ]

ProxyReply(status, cors, contentType, retryAfter, remaining, reset, body) ==
  [ statusCode |-> status,
    headers |-> [ cors |-> cors, contentType |-> contentType, retryAfter |-> retryAfter,
                  remaining |-> remaining, reset |-> reset ],
    body |-> body ]

\* the reply of the catch block
ProxyCatch == ProxyReply(500, TRUE, "", "", "", "", Stringify("error: Failed to fetch weather data"))

\* the handler is invoked: preflight, method and parameter checks, then fetch
ProxyInvoke(event) ==
  /\ proxy.pc \in {"idle", "done"}
  /\ proxy' =
       IF event.httpMethod = "OPTIONS"
       THEN [ pc |-> "done", event |-> event, answered |-> FALSE,
              reply |-> ProxyReply(200, TRUE, "", "", "", "", [ json |-> FALSE, value |-> "", compact |-> TRUE ]) ]
       ELSE IF event.httpMethod # "GET"
       THEN [ pc |-> "done", event |-> event, answered |-> FALSE,
              reply |-> ProxyReply(405, TRUE, "", "", "", "", Stringify("error: Method not allowed")) ]
       ELSE IF event.latitude = "" \/ event.longitude = ""
       THEN [ pc |-> "done", event |-> event, answered |-> FALSE,
              reply |-> ProxyReply(400, TRUE, "", "", "", "", Stringify("error: Missing latitude or longitude")) ]
       ELSE [ pc |-> "fetching", event |-> event ]
  /\ UNCHANGED <<now, ticks, weatherCache, calls, requests, rateLimit, env, run, app>>

\* the upstream answers: response.json(), the forwarded headers, the reply;
\* a body that is not JSON makes response.json() throw into the catch block
ProxyRelay(upstream) ==
  IF ~upstream.body.json
  THEN ProxyCatch
  ELSE ProxyReply(upstream.status, TRUE, "application/json", Forwarded(upstream.retryAfter),
                  Forwarded(upstream.remaining), Forwarded(upstream.reset),
                  Stringify(upstream.body.value))

ProxyFetchResolves ==
  /\ proxy.pc = "fetching"
  /\ \E upstream \in env.upstreams :
       proxy' = [ pc |-> "done", event |-> proxy.event, answered |-> TRUE,
                  upstream |-> upstream, reply |-> ProxyRelay(upstream) ]
  /\ UNCHANGED <<now, ticks, weatherCache, calls, requests, rateLimit, env, run, app>>

\* fetch rejects: the catch block
ProxyFetchRejects ==
  /\ proxy.pc = "fetching"
  /\ proxy' = [ pc |-> "done", event |-> proxy.event, answered |-> FALSE, reply |-> ProxyCatch ]
  /\ UNCHANGED <<now, ticks, weatherCache, calls, requests, rateLimit, env, run, app>>

InitProxy ==
  /\ InitShared
  /\ weatherCache = [ k \in Keys |-> NoEntry ]
  /\ env = [ events |-> ProxyEvents, upstreams |-> UpstreamResponses ]
  /\ calls = << >>
  /\ run = NoRun

NextProxy ==
  \/ \E event \in env.events : ProxyInvoke(event)
  \/ ProxyFetchResolves
  \/ ProxyFetchRejects

SpecProxy == InitProxy /\ [][NextProxy]_vars

(***************************************************************************)
(* Properties of fetchWeatherData (checked under SpecCalls)                *)
(***************************************************************************)
Started == { c \in DOMAIN calls : calls[c].st # "idle" }
Settled == { c \in DOMAIN calls : calls[c].st = "settled" }

\* C2: a lookup that finds an entry for its key and happens strictly before
\* the entry's expiry issues no upstream request and returns the cached
\* observation; a lookup at or after the expiry always issues a request.
C2_TtlBoundary ==
  \A c \in Started :
    calls[c].cached.present =>
      /\ calls[c].startedAt < calls[c].cached.expires =>
           ~calls[c].issued /\ calls[c].st = "settled" /\ calls[c].result = calls[c].cached.data
      /\ calls[c].startedAt >= calls[c].cached.expires => calls[c].issued

\* a lookup made exactly at the expiry of the entry it found went upstream
C2_Witness ==
  \E c \in Started :
    calls[c].cached.present /\ calls[c].startedAt = calls[c].cached.expires /\ calls[c].issued

\* C3: a call that found an entry at or past its expiry never returns that
\* entry's observation: it returns absent, or the observation it has just
\* obtained from upstream; a failed refetch returns absent.
C3_NoStaleObservation ==
  \A c \in Settled :
    (calls[c].cached.present /\ calls[c].startedAt >= calls[c].cached.expires) =>
      /\ calls[c].result # calls[c].cached.data
      /\ calls[c].result = Null \/ calls[c].result.timestamp = calls[c].settledAt
      /\ (calls[c].response = NoResponse \/ ~ResponseOk(calls[c].response.status)) => calls[c].result = Null

\* an expired entry was found, the refetch was answered 429, and the call returned absent
C3_Witness ==
  \E c \in Settled :
    /\ calls[c].cached.present /\ calls[c].startedAt >= calls[c].cached.expires
    /\ calls[c].response.status = 429
    /\ calls[c].result = Null

SameKey(c, d) == KeyOf(calls[c].pos) = KeyOf(calls[d].pos)

\* C8 as stated: any two calls for the same position within the TTL window
\* perform one upstream request together and return equal values.
C8_OneRequestForTwoCalls ==
  \A c, d \in Settled :
    (c # d /\ calls[c].pos = calls[d].pos /\ calls[c].startedAt <= calls[d].startedAt
       /\ calls[d].startedAt < calls[c].startedAt + CACHE_TTL) =>
      /\ Cardinality({ e \in {c, d} : calls[e].issued }) = 1
      /\ calls[c].result = calls[d].result

\* C8 amended: when the first call went upstream and returned an observation,
\* and the second call starts while the cache holds that observation and less
\* than the TTL after it was stored, the second call issues no request and
\* returns the same observation: one upstream request for the two calls.
C8_SecondCallServedFromCache ==
  \A c, d \in Started :
    (c # d /\ SameKey(c, d) /\ calls[c].st = "settled" /\ calls[c].issued /\ calls[c].result # Null
       /\ calls[d].cached.present /\ calls[d].cached.data = calls[c].result
       /\ calls[d].startedAt < calls[c].settledAt + CACHE_TTL) =>
      /\ ~calls[d].issued
      /\ calls[d].st = "settled" /\ calls[d].result = calls[c].result
      /\ Cardinality({ e \in {c, d} : calls[e].issued }) = 1

\* the second call started after the first had returned its observation and was served
C8_Witness ==
  \E c, d \in Settled :
    /\ c # d /\ SameKey(c, d) /\ calls[c].issued /\ calls[c].result # Null
    /\ calls[d].startedAt > calls[c].settledAt
    /\ ~calls[d].issued /\ calls[d].result = calls[c].result
    /\ requests[KeyOf(calls[c].pos)] = 1

\* call c returns absent in this step
ReturnsAbsent(c) ==
  /\ c \in DOMAIN calls' /\ calls[c].st \in {"fetching", "body"}
  /\ calls'[c].st = "settled" /\ calls'[c].result = Null

\* C11: a step in which a call returns absent (429, other non-success status,
\* timeout, network failure, payload without current data) leaves every entry
\* of the cache as it was; and a later call for the key that finds the cache
\* as the failed call found it issues an upstream request again.
C11_FailureLeavesCache ==
  /\ [][ \A c \in DOMAIN calls : ReturnsAbsent(c) => weatherCache' = weatherCache ]_vars
  /\ [](\A c, d \in Started :
          (c # d /\ SameKey(c, d) /\ calls[c].st = "settled" /\ calls[c].issued
             /\ calls[c].result = Null /\ calls[d].startedAt >= calls[c].settledAt
             /\ calls[d].cached = calls[c].cached) => calls[d].issued)

\* a call answered without current data returned absent, the cache has no
\* entry for its key, and the next call for the key went upstream
C11_Witness ==
  \E c, d \in Started :
    /\ c # d /\ SameKey(c, d)
    /\ calls[c].st = "settled" /\ calls[c].result = Null /\ ResponseOk(calls[c].response.status)
    /\ calls[d].startedAt >= calls[c].settledAt /\ calls[d].issued
    /\ weatherCache[KeyOf(calls[c].pos)] = NoEntry

(***************************************************************************)
(* Properties of the parse (checked under SpecParse)                       *)
(***************************************************************************)
IsNumeric(x) == x.t = "number"

\* the parsed field is the payload's value when numeric, else 0
ParsedAs(x, y) == y = (IF IsNumeric(x) THEN x ELSE Num(0))

\* C13: in every observation obtained from upstream each of the five parsed
\* fields equals the payload's value when that value is numeric and 0 when it
\* is missing, null, NaN or a string.
C13_FieldsNumericOrZero ==
  \A c \in Settled :
    (calls[c].issued /\ calls[c].result # Null) =>
      /\ ParsedAs(calls[c].current.temperature_2m, calls[c].result.temperature)
      /\ ParsedAs(calls[c].current.wind_speed_10m, calls[c].result.windSpeed)
      /\ ParsedAs(calls[c].current.wind_direction_10m, calls[c].result.windDirection)
      /\ ParsedAs(calls[c].current.relative_humidity_2m, calls[c].result.humidity)
      /\ ParsedAs(calls[c].current.surface_pressure, calls[c].result.pressure)

\* C21: a call whose upstream answered with a success status returns absent
\* only when the body could not be parsed; when a document was parsed, also one
\* without a current record, the call returns an observation in which every
\* field that is missing or not numeric in the document is 0.
C21_AbsentOnlyIfUnparseable ==
  \A c \in Settled :
    (calls[c].issued /\ calls[c].response # NoResponse /\ ResponseOk(calls[c].response.status)) =>
      /\ calls[c].result = Null => ~calls[c].parsed
      /\ calls[c].result # Null =>
           /\ ParsedAs(calls[c].current.temperature_2m, calls[c].result.temperature)
           /\ ParsedAs(calls[c].current.wind_speed_10m, calls[c].result.windSpeed)
           /\ ParsedAs(calls[c].current.wind_direction_10m, calls[c].result.windDirection)
           /\ ParsedAs(calls[c].current.relative_humidity_2m, calls[c].result.humidity)
           /\ ParsedAs(calls[c].current.surface_pressure, calls[c].result.pressure)

\* call c returns the observation it obtained from upstream in this step
ReturnsObservation(c) ==
  /\ c \in DOMAIN calls' /\ calls[c].st = "body"
  /\ calls'[c].st = "settled" /\ calls'[c].result # Null

\* C17: the step in which a call returns an observation obtained from upstream
\* leaves the cache with the entry { that observation, now + 5 minutes } under
\* the key of the call's position, whatever was there, and with every other
\* key's entry as it was.
C17_SuccessStoresEntry ==
  [][ \A c \in DOMAIN calls :
        ReturnsObservation(c) =>
          /\ weatherCache'[KeyOf(calls[c].pos)] =
                [ present |-> TRUE, data |-> calls'[c].result, expires |-> now + 5 * 60 * 1000 ]
          /\ \A k \in Keys \ { KeyOf(calls[c].pos) } : weatherCache'[k] = weatherCache[k] ]_vars

\* two calls for one key were in flight together: the entry of the first was
\* replaced by that of the second, while the other key kept its entry
C17_Witness ==
  \E c, d \in Settled :
    /\ c # d /\ SameKey(c, d) /\ calls[c].issued /\ calls[d].issued
    /\ calls[c].result # Null /\ calls[d].result # Null
    /\ calls[c].settledAt < calls[d].settledAt
    /\ weatherCache[KeyOf(calls[d].pos)] =
          [ present |-> TRUE, data |-> calls[d].result, expires |-> calls[d].settledAt + 5 * 60 * 1000 ]
    /\ \E k \in Keys \ { KeyOf(calls[d].pos) } :
         weatherCache[k].present /\ weatherCache[k].expires = 5 * 60 * 1000

\* C14: every call that went upstream settles, whatever the upstream does:
\* a call that waits for the response or for the body while the clock can
\* still advance eventually returns.
C14_EveryCallSettles ==
  \A c \in 1..MaxCalls :
    (calls[c].st \in {"fetching", "body"} /\ ticks < env.maxTicks) ~> (calls[c].st = "settled")

(***************************************************************************)
(* Properties of the rate-limit state (checked under SpecTracker)          *)
(***************************************************************************)
\* call c receives its upstream response in this step
Responded(c) == calls[c].st = "fetching" /\ calls'[c].st # "fetching" /\ calls'[c].response # NoResponse

NoSignal(headers) == ~headers.retryAfter.set /\ ~headers.remaining.set

C10_SuccessClears ==
  [][ \A c \in DOMAIN calls :
        (Responded(c) /\ ResponseOk(calls'[c].response.status) /\ NoSignal(calls'[c].response.headers)) =>
          ~getRateLimitInfo'.isRateLimited ]_vars

\* a rate-limited response was handled, then a plain success, and the state is clear
C10_Witness ==
  /\ ~getRateLimitInfo.isRateLimited
  /\ \E c, d \in Settled :
       /\ calls[c].response.status = 429
       /\ calls[d].response.status = 200 /\ NoSignal(calls[d].response.headers)
       /\ calls[d].startedAt > calls[c].settledAt

(***************************************************************************)
(* Properties of fetchWeatherForPositions                                  *)
(***************************************************************************)
InputKeys == { KeyOf(run.positions[n]) : n \in DOMAIN run.positions }
CeilDiv(n, m) == (n + m - 1) \div m
Done == run.pc = "done"

\* C1: two input positions with the same PositionKey cause at most one
\* upstream request for that key in the run, and when the lookup succeeded
\* the returned map holds the one observation obtained for the key.
C1_SharedKeyFetchedOnce ==
  \A n1, n2 \in DOMAIN run.positions :
    LET key == KeyOf(run.positions[n1]) IN
    (n1 # n2 /\ key = KeyOf(run.positions[n2])) =>
      /\ requests[key] <= 1
      /\ (Done /\ key \in DOMAIN run.weatherMap) =>
           key \in DOMAIN run.finalMap /\ run.finalMap[key] = run.weatherMap[key]

\* C4: a completed run with a callback and N unique keys has invoked the
\* callback ceil(N / maxConcurrent) times, chunks without any result
\* included; a run on empty input returns the empty map without any callback.
C4_CallbackCount ==
  Done =>
    /\ run.hasCallback =>
         IF InputKeys = {} THEN run.callbacks = <<>>
         ELSE Len(run.callbacks) = CeilDiv(Cardinality(InputKeys), run.maxConcurrent)
    /\ run.positions = <<>> => run.finalMap = EmptyMap /\ run.callbacks = <<>>

\* three keys in chunks of two: two callbacks, one of them with an empty payload
C4_Witness ==
  /\ Done /\ run.hasCallback
  /\ Cardinality(InputKeys) = 3 /\ run.maxConcurrent = 2
  /\ Len(run.callbacks) = 2
  /\ \E n \in DOMAIN run.callbacks : run.callbacks[n] = EmptyMap
  /\ run.finalMap # EmptyMap

\* C5: the payloads of the callbacks of a completed run add up to the returned
\* map, with the same observations, and no key is in two payloads.
C5_PayloadsPartitionResult ==
  (Done /\ run.hasCallback) =>
    /\ DOMAIN run.finalMap = UNION { DOMAIN run.callbacks[n] : n \in DOMAIN run.callbacks }
    /\ \A n \in DOMAIN run.callbacks : \A k \in DOMAIN run.callbacks[n] :
         run.callbacks[n][k] = run.finalMap[k]
    /\ \A n, m \in DOMAIN run.callbacks :
         n # m => DOMAIN run.callbacks[n] \cap DOMAIN run.callbacks[m] = {}

\* C6: a key whose lookup failed is in no map of the run (accumulated,
\* returned, or callback payload), and in a completed run every other key of
\* the input is in the returned map and, with a callback, in a payload.
C6_FailureIsAbsence ==
  /\ \A k \in run.failed :
       /\ k \notin DOMAIN run.weatherMap
       /\ k \notin DOMAIN run.finalMap
       /\ \A n \in DOMAIN run.callbacks : k \notin DOMAIN run.callbacks[n]
  /\ Done =>
       \A k \in InputKeys \ run.failed :
         /\ k \in DOMAIN run.finalMap
         /\ run.hasCallback => \E n \in DOMAIN run.callbacks : k \in DOMAIN run.callbacks[n]

\* the first lookup of a chunk of two failed; its sibling and the position of
\* the next chunk are in the result
C6_Witness ==
  /\ Done /\ run.hasCallback /\ run.maxConcurrent = 2 /\ Len(run.deduplicated) = 3
  /\ KeyOf(run.deduplicated[1]) \in run.failed
  /\ KeyOf(run.deduplicated[2]) \in DOMAIN run.finalMap
  /\ KeyOf(run.deduplicated[3]) \in DOMAIN run.finalMap

\* the lookups of the run that are in flight
InFlight == { c \in DOMAIN calls : calls[c].st \in {"fetching", "body"} }

\* C12: a step that issues requests starts from a state in which every
\* lookup launched before has settled; while the run awaits a chunk, the
\* lookups are for positions of the deduplicated list, and the requests in
\* flight are at most maxConcurrent (none when maxConcurrent is not positive).
C12_OneChunkInFlight ==
  /\ [][ (\E k \in Keys : requests'[k] > requests[k]) =>
           \A c \in DOMAIN calls : calls[c].st = "settled" ]_vars
  /\ [](run.pc = "await" =>
          /\ \A c \in DOMAIN calls : calls[c].pos \in { run.deduplicated[n] : n \in DOMAIN run.deduplicated }
          /\ Cardinality(InFlight) <= Max(run.maxConcurrent, 0))

\* C22: the callbacks of a run are invoked in chunk order, each after all
\* lookups of its chunk have settled and before any request of the next chunk
\* is issued, and the run returns only after the last callback: the callback
\* log changes only by the payload of the awaited chunk being appended, in a
\* step that starts with every lookup of that chunk settled; the run leaves
\* the await of a chunk (to launch the next chunk or to return) only with that
\* callback made; requests are issued only when all earlier lookups have settled.
C22_CallbacksInChunkOrder ==
  [][ /\ run'.callbacks # run.callbacks =>
           /\ run.pc = "await"
           /\ \A c \in DOMAIN calls : calls[c].st = "settled"
           /\ run'.callbacks = Append(run.callbacks, MergeResults(EmptyMap, calls, 1))
      /\ (run.pc = "await" /\ run' # run /\ run.hasCallback /\ Len(run.callbacks) < MaxIter) =>
           Len(run'.callbacks) = Len(run.callbacks) + 1
      /\ requests' # requests => \A c \in DOMAIN calls : calls[c].st = "settled" ]_vars

\* a run of two chunks of one position has returned: the first payload holds
\* the first position's key, the second payload the second position's
C22_Witness ==
  /\ Done /\ run.hasCallback /\ run.maxConcurrent = 1
  /\ Len(run.deduplicated) = 2 /\ Len(run.callbacks) = 2
  /\ KeyOf(run.deduplicated[1]) \in DOMAIN run.callbacks[1]
  /\ KeyOf(run.deduplicated[2]) \in DOMAIN run.callbacks[2]

\* the PositionKey of an observation's own coordinates
ObservationKey(weather) == KeyOf(Pos(weather.latitude, weather.longitude))

\* C23: every cache entry is stored under the PositionKey of its own
\* observation's coordinates; every observation a lookup returned, from the
\* cache or from upstream, has the PositionKey of the position looked up; and
\* every entry of the run's maps is filed under that same key.
C23_KeysAgree ==
  /\ \A k \in Keys : weatherCache[k].present => ObservationKey(weatherCache[k].data) = k
  /\ \A c \in DOMAIN calls :
       (calls[c].st = "settled" /\ calls[c].result # Null) =>
         ObservationKey(calls[c].result) = KeyOf(calls[c].pos)
  /\ \A k \in DOMAIN run.weatherMap : ObservationKey(run.weatherMap[k]) = k
  /\ \A k \in DOMAIN run.finalMap : ObservationKey(run.finalMap[k]) = k
  /\ \A n \in DOMAIN run.callbacks : \A k \in DOMAIN run.callbacks[n] :
       ObservationKey(run.callbacks[n][k]) = k

\* a run returned, for a position, an observation taken for other coordinates
\* with the same key (served from the cache), and one obtained from upstream
C23_Witness ==
  /\ Done /\ run.hasCallback
  /\ \E n \in DOMAIN run.positions :
       /\ KeyOf(run.positions[n]) \in DOMAIN run.finalMap
       /\ run.finalMap[KeyOf(run.positions[n])].latitude # run.positions[n].latitude
  /\ \E k \in DOMAIN run.finalMap : run.finalMap[k].timestamp > 0

(***************************************************************************)
(* Properties of the App (checked under SpecApp)                           *)
(***************************************************************************)
\* C15: once a later load has started, weatherData holds no entry that a
\* callback of an earlier, abandoned load has merged: every entry was set by
\* the latest load.
C15_AbandonedResultsDiscarded ==
  \A k \in DOMAIN app.weatherData : app.weatherData[k].by = Len(app.loads)

\* C16: the payload handed to the callback at a join has exactly the keys of
\* the joined chunk whose lookup returned an observation, each with that
\* observation: no key an earlier chunk resolved, no key whose lookup failed.
C16_PayloadIsOwnChunk ==
  [][ (run.pc = "await" /\ Len(run'.callbacks) = Len(run.callbacks) + 1) =>
        LET payload == run'.callbacks[Len(run'.callbacks)]
            ok == { c \in DOMAIN calls : calls[c].result # Null }
        IN /\ DOMAIN payload = { KeyOf(calls[c].pos) : c \in ok }
           /\ \A c \in ok : payload[KeyOf(calls[c].pos)] = calls[c].result
           /\ DOMAIN payload \cap DOMAIN run.weatherMap = {}
           /\ DOMAIN payload \cap FailedKeys(calls) = {} ]_vars

\* two chunks were joined: the first payload is not empty, the second holds
\* its own chunk's success only, and a lookup of the second chunk failed
C16_Witness ==
  /\ run.hasCallback /\ Len(run.callbacks) = 2 /\ run.maxConcurrent = 1
  /\ run.callbacks[1] # EmptyMap /\ run.callbacks[2] = EmptyMap
  /\ Len(run.deduplicated) = 3 /\ run.i = 2
  /\ KeyOf(run.deduplicated[2]) \in run.failed
  /\ KeyOf(run.deduplicated[1]) \in DOMAIN run.weatherMap

\* the index of the first input position with the key
FirstIndex(positions, key) ==
  CHOOSE n \in DOMAIN positions :
    /\ KeyOf(positions[n]) = key
    /\ \A m \in DOMAIN positions : KeyOf(positions[m]) = key => n <= m

\* C18: the deduplicated list holds, for each key of the input, the first
\* input position with the key, in order of first appearance; the chunk awaited
\* at loop counter i is the positions i+1 .. i+maxConcurrent of that list (fewer
\* only when the list ends), with the coordinates of those positions.
C18_FirstWinsContiguousChunks ==
  run.pc \in {"await", "done"} =>
    /\ { KeyOf(run.deduplicated[n]) : n \in DOMAIN run.deduplicated } = InputKeys
    /\ \A n \in DOMAIN run.deduplicated :
         run.deduplicated[n] = run.positions[FirstIndex(run.positions, KeyOf(run.deduplicated[n]))]
    /\ \A n, m \in DOMAIN run.deduplicated :
         n < m => FirstIndex(run.positions, KeyOf(run.deduplicated[n]))
                    < FirstIndex(run.positions, KeyOf(run.deduplicated[m]))
    /\ run.pc = "await" =>
         /\ Len(calls) = Max(Min(run.i + run.maxConcurrent, Len(run.deduplicated)) - run.i, 0)
         /\ \A c \in DOMAIN calls : calls[c].pos = run.deduplicated[run.i + c]

\* C19: the map a run returns has an entry for a key of the input exactly
\* when the lookup for the key succeeded, the entry is the observation the
\* lookup obtained (the one the cache holds for the key), and it has no key
\* outside the keys of the input.
C19_ResultIsSuccessfulKeys ==
  Done =>
    /\ DOMAIN run.finalMap \subseteq InputKeys
    /\ \A k \in InputKeys : k \in DOMAIN run.finalMap <=> k \notin run.failed
    /\ \A k \in DOMAIN run.finalMap :
         weatherCache[k].present /\ run.finalMap[k] = weatherCache[k].data

\* an input with a repeated key and a second key: the repeated key is in the
\* returned map, the key whose lookup failed is not
C19_Witness ==
  /\ Done /\ Len(run.positions) = 3 /\ Cardinality(InputKeys) = 2
  /\ KeyOf(run.positions[1]) = KeyOf(run.positions[3]) /\ run.positions[1] # run.positions[3]
  /\ KeyOf(run.positions[1]) \in DOMAIN run.finalMap
  /\ KeyOf(run.positions[2]) \in run.failed

(***************************************************************************)
(* Properties of the weather proxy (checked under SpecProxy)               *)
(***************************************************************************)
\* C20: whenever the proxy has replied to a request that the upstream
\* answered, the reply has the upstream's status code, the upstream's
\* Retry-After, X-RateLimit-Remaining and X-RateLimit-Reset headers, and the
\* upstream's body (for a JSON body, the same document).
C20_ProxyMirrorsUpstream ==
  (proxy.pc = "done" /\ proxy.answered) =>
    /\ proxy.reply.statusCode = proxy.upstream.status
    /\ proxy.reply.headers.retryAfter = proxy.upstream.retryAfter
    /\ proxy.reply.headers.remaining = proxy.upstream.remaining
    /\ proxy.reply.headers.reset = proxy.upstream.reset
    /\ proxy.reply.body.json = proxy.upstream.body.json
    /\ proxy.reply.body.value = proxy.upstream.body.value

\* C7: every run returns.
C7_RunReturns == <>Done

====
